---- MODULE Spec2Model ----
(***************************************************************************)
(* installedCheck (index.js): the orchestrator that reads the root         *)
(* manifest and installed snapshot, fans out over the workspace members,   *)
(* builds one check context per unit and runs the version and the engine   *)
(* evaluators over the contexts.                                           *)
(*                                                                         *)
(* Strings are TLA+ strings and '+' on them is \o.  A value that may be    *)
(* `undefined` is a set of at most one value.  An object used as a mapping is a   *)
(* function from names to values; a Map is a function as well.  A promise  *)
(* is a record [state, val] with state pending, ok or failed.  Each action *)
(* is one turn of the event loop: the completion of one read together with *)
(* every promise reaction (microtask) that it triggers.                    *)
(***************************************************************************)
EXTENDS Integers, Sequences, FiniteSets, TLC

VARIABLES
  options,   \* the argument of installedCheck (line 29), possibly undefined
  disk,      \* what readPackage and listInstalled find: path -> manifest, path -> snapshot
  pc,        \* idle, rootReads (await of line 50), memberReads (await of line 71),
             \* returned, thrown
  reads,     \* the promises of the reads: pkg[0], inst[0] for the root (lines 51, 54),
             \* pkg[i], inst[i] for the i-th member (lines 77, 80)
  members,   \* mainPackage.workspaces.filter(w => w !== '.') (line 73)
  checks,    \* the array `checks` (line 45)
  outcome,   \* the returned object (line 130) or the thrown error
  calls,     \* the calls of the two evaluators (lines 104, 118), with their arguments
  prev       \* the outcome of the call before this one, if there was one

vars == <<options, disk, pc, reads, members, checks, outcome, calls, prev>>

(***************************************************************************)
(* Bounds of the model.                                                    *)
(***************************************************************************)
\* versions and the lower ends of ranges are drawn from 1..MaxVersion
MaxVersion == 2
\* the workspace member directories are p1 .. p<MaxMembers>
MaxMembers == 2

(***************************************************************************)
(* Values.                                                                 *)
(***************************************************************************)
EmptyMap == [n \in {} |-> 0]

\* a value that may be undefined: the empty set, or the set of the one value
Undefined == {}

Def(v) == {v}

IsDef(x) == x # {}

Val(x) == CHOOSE v \in x : TRUE

\* `x = d` in a destructuring pattern: the default applies to undefined only
Default(x, d) == IF IsDef(x) THEN Val(x) ELSE d

\* OrElse with an empty object counted as falsy
OrElseNonEmpty(x, y) == IF IsDef(x) /\ Val(x).map # EmptyMap THEN x ELSE y

\* `x || y` where x, when defined, is an object (an object is always truthy)
OrElse(x, y) == IF IsDef(x) THEN x ELSE y

\* `x || {}` at the end of an || chain
OrEmpty(x) == IF IsDef(x) THEN Val(x) ELSE EmptyMap

\* Object.assign({}, a, b): a fresh mapping, b's entries over a's
Assign(a, b) ==
  [n \in (DOMAIN a) \cup (DOMAIN b) |-> IF n \in DOMAIN b THEN b[n] ELSE a[n]]

\* `delete o[name]` for every name of a list, on the mapping o
DeleteAll(o, names) ==
  [n \in (DOMAIN o) \ {names[k] : k \in 1..Len(names)} |-> o[n]]

\* new Map(base) followed by over.forEach((value, key) => map.set(key, value))
Overlay(base, over) ==
  [n \in (DOMAIN base) \cup (DOMAIN over) |-> IF n \in DOMAIN over THEN over[n] ELSE base[n]]

\* array.filter(w => w !== '.')
RECURSIVE NotDot(_)
NotDot(ws) ==
  IF ws = <<>> THEN <<>>
  ELSE IF Head(ws) # "." THEN <<Head(ws)>> \o NotDot(Tail(ws))
  ELSE NotDot(Tail(ws))

\* path + '/' + w
Subpath(path, w) == path \o "/" \o w

Names == {"a", "b"}

NameOrder == <<"a", "b">>

\* process.version, as the engine evaluator sees it
NodeVersion == 1

Range(r) == ">=" \o ToString(r)

Satisfies(v, r) == v >= r

(***************************************************************************)
(* The two evaluators of ./lib, which index.js imports and calls.  Both    *)
(* are pure: they return { errors, warnings } and read their arguments.    *)
(* A range is its lower end r, written ">=r"; an installed entry is        *)
(* [version, engines].                                                     *)
(***************************************************************************)
NotInstalled(n) == n \o " is not installed"

VersionMismatch(n, v, r) ==
  n \o " installed version (" \o ToString(v) \o ") does not satisfy (" \o Range(r) \o ")"

PlatformMismatch(e, r) ==
  e \o " platform version (" \o ToString(NodeVersion) \o ") does not satisfy engine (" \o Range(r) \o ")"

DependencyEngineMismatch(n, e, r) ==
  n \o " requires engine " \o e \o " (" \o Range(r) \o ")"

NoLines == [errors |-> <<>>, warnings |-> <<>>]

AddError(acc, str) == [acc EXCEPT !.errors = Append(@, str)]

AddWarning(acc, str) == [acc EXCEPT !.warnings = Append(@, str)]

\* one name of the dependency version evaluator
VersionEntry(acc, n, required, installed, optional) ==
  IF n \notin (DOMAIN required) \cup (DOMAIN optional) THEN acc
  ELSE LET isOptional == n \in DOMAIN optional
           r == IF n \in DOMAIN required THEN required[n] ELSE optional[n]
       IN IF n \notin DOMAIN installed
          THEN IF isOptional THEN acc ELSE AddError(acc, NotInstalled(n))
          ELSE IF Satisfies(installed[n].version, r) THEN acc
          ELSE IF isOptional
               THEN AddWarning(acc, VersionMismatch(n, installed[n].version, r))
               ELSE AddError(acc, VersionMismatch(n, installed[n].version, r))

RECURSIVE VersionEntries(_, _, _, _, _)
VersionEntries(acc, k, required, installed, optional) ==
  IF k > Len(NameOrder) THEN acc
  ELSE VersionEntries(VersionEntry(acc, NameOrder[k], required, installed, optional),
                      k + 1, required, installed, optional)

checkPackageVersions(required, installed, optional) ==
  VersionEntries(NoLines, 1, required, installed, optional)

\* the platform's own version against the declared engines
PlatformEntries(engines) ==
  IF "node" \in DOMAIN engines /\ ~Satisfies(NodeVersion, engines["node"])
  THEN AddError(NoLines, PlatformMismatch("node", engines["node"]))
  ELSE NoLines

\* one dependency of the engine evaluator: the installed package's own engines
EngineEntry(acc, n, dependencies, installed, optional) ==
  IF n \notin DOMAIN dependencies \/ n \notin DOMAIN installed THEN acc
  ELSE LET own == installed[n].engines
       IN IF "node" \notin DOMAIN own \/ Satisfies(NodeVersion, own["node"]) THEN acc
          ELSE IF n \in DOMAIN optional
               THEN AddWarning(acc, DependencyEngineMismatch(n, "node", own["node"]))
               ELSE AddError(acc, DependencyEngineMismatch(n, "node", own["node"]))

RECURSIVE EngineEntries(_, _, _, _, _)
EngineEntries(acc, k, dependencies, installed, optional) ==
  IF k > Len(NameOrder) THEN acc
  ELSE EngineEntries(EngineEntry(acc, NameOrder[k], dependencies, installed, optional),
                     k + 1, dependencies, installed, optional)

checkEngineVersions(engines, dependencies, installed, optional) ==
  EngineEntries(PlatformEntries(engines), 1, dependencies, installed, optional)

(***************************************************************************)
(* Objects.  A mapping that the program holds by reference is [id, map]:   *)
(* two fields that hold the same object carry the same id, and a write to  *)
(* an object shows in every context field that holds it.  A fresh object   *)
(* gets the id of the place that creates it.                               *)
(***************************************************************************)
Obj(id, map) == [id |-> id, map |-> map]

\* pkg[field], the object the manifest read at `at` holds, or Undefined
PackageField(pkg, field, at) ==
  IF IsDef(pkg[field]) THEN Def(Obj(field \o " of " \o at, Val(pkg[field]))) ELSE Undefined

\* `x || {}` at the end of an || chain: x, or a new empty object
OrNew(x, id) == IF IsDef(x) THEN Val(x) ELSE Obj(id, EmptyMap)

\* the value of a context field once the object `obj` has been written
Written(value, obj) == IF value.id = obj.id THEN obj ELSE value

\* the contexts once the object `obj` has been written
WriteThrough(cs, obj) ==
  [k \in 1..Len(cs) |->
     [f \in DOMAIN cs[k] |-> IF f = "subpath" THEN cs[k][f] ELSE Written(cs[k][f], obj)]]

(***************************************************************************)
(* The synchronous tail of installedCheck: the two forEach passes over     *)
(* `checks` and the returned object.                                       *)
(***************************************************************************)
\* Label with the prefix left out
LabelUnprefixed(check, str) == str

\* check.subpath ? '[' + check.subpath + '] ' + str : str
Label(check, str) ==
  IF IsDef(check.subpath) /\ Val(check.subpath) # ""
  THEN "[" \o Val(check.subpath) \o "] " \o str
  ELSE str

\* lines.map(str => ...)
MapLabel(check, lines) == [k \in 1..Len(lines) |-> Label(check, lines[k])]

\* the name of a context, for the ids of the objects made for it
At(check) == IF IsDef(check.subpath) THEN Val(check.subpath) ELSE "root"

\* EngineCopy without the copy: the context's own object
EngineAlias(check, engineNoDev) ==
  IF engineNoDev THEN check.dependencies ELSE check.requiredDependencies

\* line 112: Object.assign({}, engineNoDev ? check.dependencies : check.requiredDependencies)
EngineCopy(check, engineNoDev) ==
  Obj("engine dependencies of " \o At(check),
      Assign(EmptyMap, IF engineNoDev THEN check.dependencies.map
                       ELSE check.requiredDependencies.map))

\* lines 114-116: the object `dependencies` after the deletes
EngineDependencies(check, engineNoDev, engineIgnores) ==
  LET dependencies == EngineCopy(check, engineNoDev)
  IN Obj(dependencies.id, DeleteAll(dependencies.map, engineIgnores))

\* the arguments of one evaluator call, as the call log records them
VersionCall(check) ==
  [fn |-> "checkPackageVersions", subpath |-> check.subpath, engines |-> EmptyMap,
   dependencies |-> check.requiredDependencies.map,
   installed |-> check.installedDependencies.map,
   optional |-> check.optionalDependencies.map]

EngineCall(check, dependencies) ==
  [fn |-> "checkEngineVersions", subpath |-> check.subpath, engines |-> check.engines.map,
   dependencies |-> dependencies.map,
   installed |-> check.installedDependencies.map,
   optional |-> check.optionalDependencies.map]

\* the evaluator's result for a logged call
CallResult(c) ==
  IF c.fn = "checkPackageVersions"
  THEN checkPackageVersions(c.dependencies, c.installed, c.optional)
  ELSE checkEngineVersions(c.engines, c.dependencies, c.installed, c.optional)

\* lines 102-108: if (versionCheck) checks.forEach(...), from element k on
RECURSIVE VersionPass(_, _)
VersionPass(acc, k) ==
  IF k > Len(acc.checks) THEN acc
  ELSE LET check == acc.checks[k]
           packageResult == CallResult(VersionCall(check))
       IN VersionPass([acc EXCEPT
                         !.errors = @ \o MapLabel(check, packageResult.errors),
                         !.warnings = @ \o MapLabel(check, packageResult.warnings),
                         !.calls = Append(@, VersionCall(check))],
                      k + 1)

\* lines 110-128: if (engineCheck) checks.forEach(...), from element k on
RECURSIVE EnginePass(_, _, _, _)
EnginePass(acc, k, engineNoDev, engineIgnores) ==
  IF k > Len(acc.checks) THEN acc
  ELSE LET check == acc.checks[k]
           dependencies == EngineDependencies(check, engineNoDev, engineIgnores)
           cs == WriteThrough(acc.checks, dependencies)
           call == EngineCall(cs[k], dependencies)
           engineResult == CallResult(call)
       IN EnginePass([errors |-> acc.errors \o MapLabel(check, engineResult.errors),
                      warnings |-> acc.warnings \o MapLabel(check, engineResult.warnings),
                      calls |-> Append(acc.calls, call),
                      checks |-> cs],
                     k + 1, engineNoDev, engineIgnores)

\* Evaluate with the engine block placed before the version block
EvaluateEngineFirst(cs, o) ==
  LET start == [errors |-> <<>>, warnings |-> <<>>, calls |-> <<>>, checks |-> cs]
      afterEngine == IF o.engineCheck
                     THEN EnginePass(start, 1, o.engineNoDev, o.engineIgnores)
                     ELSE start
  IN IF o.versionCheck THEN VersionPass(afterEngine, 1) ELSE afterEngine

\* lines 97-130: the result for the contexts cs under the options o
Evaluate(cs, o) ==
  LET start == [errors |-> <<>>, warnings |-> <<>>, calls |-> <<>>, checks |-> cs]
      afterVersion == IF o.versionCheck THEN VersionPass(start, 1) ELSE start
  IN IF o.engineCheck
     THEN EnginePass(afterVersion, 1, o.engineNoDev, o.engineIgnores)
     ELSE afterVersion

(***************************************************************************)
(* The options, the two readers and the contexts.                          *)
(***************************************************************************)
\* lines 32-39: the destructuring of `options` with its defaults
Resolved(opt) ==
  [engineCheck |-> Default(opt.engineCheck, FALSE),
   engineIgnores |-> Default(opt.engineIgnores, <<>>),
   engineNoDev |-> Default(opt.engineNoDev, FALSE),
   path |-> Default(opt.path, "."),
   versionCheck |-> Default(opt.versionCheck, FALSE),
   traverseWorkspaces |-> Default(opt.traverseWorkspaces, TRUE)]

Opts == Resolved(Val(options))

\* NoCheckSelected with the second negation dropped
NoEngineCheckSelected(o) == ~o.engineCheck /\ o.versionCheck

\* line 41: !engineCheck && !versionCheck
NoCheckSelected(o) == ~o.engineCheck /\ ~o.versionCheck

\* readPackage({ cwd }): the manifest, or Undefined when the read fails
readPackage(cwd) ==
  IF cwd \in DOMAIN disk.manifest THEN disk.manifest[cwd] ELSE Undefined

\* listInstalled(path): the installed snapshot, or Undefined when the read fails
listInstalled(path) ==
  IF path \in DOMAIN disk.installed THEN disk.installed[path] ELSE Undefined

\* the underlying error of a failed read
ReadError(what, path) == what \o " failed at " \o path

Pending == [state |-> "pending", val |-> Undefined]

Fulfilled(v) == [state |-> "ok", val |-> Def(v)]

Rejected == [state |-> "failed", val |-> Undefined]

\* the value a fulfilled promise holds
Value(promise) == Val(promise.val)

Settle(res) == IF IsDef(res) THEN Fulfilled(Val(res)) ELSE Rejected

\* SettleOrEmpty without the catch
SettleUncaught(res) == IF IsDef(res) THEN Fulfilled(Val(res)) ELSE Rejected

\* listInstalled(subpath).catch(() => (new Map()))
SettleOrEmpty(res) == IF IsDef(res) THEN Fulfilled(Val(res)) ELSE Fulfilled(EmptyMap)

NoOutcome == [errors |-> <<>>, warnings |-> <<>>, notices |-> <<>>, message |-> "", cause |-> ""]

NoReads == [pkg |-> EmptyMap, inst |-> EmptyMap]

\* lines 59-68: the root context
MainCheck(path, mainPackage, mainInstalledDependencies) ==
  [subpath |-> Undefined,
   engines |-> OrNew(PackageField(mainPackage, "engines", path), "{} for engines of root"),
   dependencies |-> OrNew(PackageField(mainPackage, "dependencies", path),
                          "{} for dependencies of root"),
   requiredDependencies |->
     Obj("requiredDependencies of root",
         Assign(Assign(EmptyMap, OrEmpty(mainPackage.dependencies)),
                OrEmpty(mainPackage.devDependencies))),
   optionalDependencies |->
     Obj("optionalDependencies of root",
         Assign(EmptyMap, OrEmpty(mainPackage.optionalDependencies))),
   installedDependencies |-> mainInstalledDependencies]

\* NewMap without the copy: the root's own Map object
SameMap(subpath, mainInstalledDependencies) == mainInstalledDependencies

\* line 82: new Map(mainInstalledDependencies)
NewMap(subpath, mainInstalledDependencies) ==
  Obj("installedDependencies of " \o subpath, mainInstalledDependencies.map)

\* lines 82-83: the member's snapshot object, once every entry of subInstalled is set
InstalledDependencies(subpath, mainInstalledDependencies, subInstalled) ==
  LET installedDependencies == NewMap(subpath, mainInstalledDependencies)
  IN Obj(installedDependencies.id, Overlay(installedDependencies.map, subInstalled))

\* lines 84-91: the context of one workspace member
SubCheck(path, subpath, subPackage, installedDependencies, mainPackage) ==
  [subpath |-> Def(subpath),
   engines |-> OrNew(OrElse(PackageField(subPackage, "engines", subpath),
                            PackageField(mainPackage, "engines", path)),
                     "{} for engines of " \o subpath),
   dependencies |-> OrNew(OrElse(PackageField(subPackage, "dependencies", subpath),
                                 PackageField(mainPackage, "dependencies", path)),
                          "{} for dependencies of " \o subpath),
   requiredDependencies |->
     Obj("requiredDependencies of " \o subpath,
         Assign(Assign(EmptyMap, OrEmpty(subPackage.dependencies)),
                OrEmpty(subPackage.devDependencies))),
   optionalDependencies |->
     Obj("optionalDependencies of " \o subpath,
         Assign(EmptyMap, OrEmpty(subPackage.optionalDependencies))),
   installedDependencies |-> installedDependencies]

(***************************************************************************)
(* The ways a turn ends.                                                   *)
(***************************************************************************)
\* return { errors, warnings, notices: [] } after the two passes over cs
Return(cs) ==
  LET res == Evaluate(cs, Opts)
  IN /\ pc' = "returned"
     /\ outcome' = [NoOutcome EXCEPT !.errors = res.errors, !.warnings = res.warnings]
     /\ calls' = res.calls
     /\ checks' = res.checks

\* the promise of installedCheck rejects with Error(message, { cause })
Throw(message, cause) ==
  /\ pc' = "thrown"
  /\ outcome' = [NoOutcome EXCEPT !.message = message, !.cause = cause]
  /\ UNCHANGED calls

\* lines 59-95, entered when both root reads are fulfilled (r: the reads then)
AfterRoot(r) ==
  LET mainPackage == Value(r.pkg[0])
      main == MainCheck(Opts.path, mainPackage,
                        Obj("installed of " \o Opts.path, Value(r.inst[0])))
      ws == IF Opts.traverseWorkspaces /\ IsDef(mainPackage.workspaces)
            THEN NotDot(Val(mainPackage.workspaces))
            ELSE <<>>
  IN /\ members' = ws
     /\ IF ws = <<>>
        THEN reads' = r /\ Return(<<main>>)
        ELSE /\ reads' = [pkg |-> [i \in 0..Len(ws) |-> IF i = 0 THEN r.pkg[0] ELSE Pending],
                          inst |-> [i \in 0..Len(ws) |-> IF i = 0 THEN r.inst[0] ELSE Pending]]
             /\ checks' = <<main>>
             /\ pc' = "memberReads"
             /\ UNCHANGED <<outcome, calls>>

\* lines 81-92: the .then of member i, entered when both its reads are fulfilled.
\* mainInstalledDependencies is the object that checks[0].installedDependencies holds.
MemberThen(i, r) ==
  LET subpath == Subpath(Opts.path, members[i])
      installedDependencies ==
        InstalledDependencies(subpath, checks[1].installedDependencies, Value(r.inst[i]))
      written == WriteThrough(checks, installedDependencies)
      cs == Append(written, SubCheck(Opts.path, subpath, Value(r.pkg[i]),
                                     installedDependencies, Value(r.pkg[0])))
  IN /\ reads' = r
     /\ IF pc = "memberReads" /\ Len(cs) = 1 + Len(members)
        THEN Return(cs)
        ELSE checks' = cs /\ UNCHANGED <<pc, outcome, calls>>

(***************************************************************************)
(* The actions.                                                            *)
(***************************************************************************)
\* lines 29-57: the call, up to the first await
Call ==
  /\ pc = "idle"
  /\ IF ~IsDef(options)
     THEN Throw("Expected options to be set", "") /\ UNCHANGED reads
     ELSE IF NoCheckSelected(Opts)
     THEN Throw("Expected to run at least one check. Add engineCheck and/or versionCheck", "")
          /\ UNCHANGED reads
     ELSE /\ pc' = "rootReads"
          /\ reads' = [pkg |-> [i \in {0} |-> Pending], inst |-> [i \in {0} |-> Pending]]
          /\ UNCHANGED <<outcome, calls>>
  /\ UNCHANGED <<options, disk, members, checks, prev>>

\* lines 51-53: readPackage({ cwd: path }) settles
RootPackageDone ==
  /\ 0 \in DOMAIN reads.pkg
  /\ reads.pkg[0].state = "pending"
  /\ LET res == readPackage(Opts.path)
         r == [reads EXCEPT !.pkg[0] = Settle(res)]
     IN IF ~IsDef(res)
        THEN /\ reads' = r
             /\ IF pc = "rootReads"
                THEN Throw("Failed to read package.json", ReadError("readPackage", Opts.path))
                ELSE UNCHANGED <<pc, outcome, calls>>
             /\ UNCHANGED <<members, checks>>
        ELSE IF pc = "rootReads" /\ r.inst[0].state = "ok"
        THEN AfterRoot(r)
        ELSE reads' = r /\ UNCHANGED <<pc, outcome, calls, members, checks>>
  /\ UNCHANGED <<options, disk, prev>>

\* lines 54-56: listInstalled(path) settles
RootInstalledDone ==
  /\ 0 \in DOMAIN reads.inst
  /\ reads.inst[0].state = "pending"
  /\ LET res == listInstalled(Opts.path)
         r == [reads EXCEPT !.inst[0] = Settle(res)]
     IN IF ~IsDef(res)
        THEN /\ reads' = r
             /\ IF pc = "rootReads"
                THEN Throw("Failed to list installed modules", ReadError("listInstalled", Opts.path))
                ELSE UNCHANGED <<pc, outcome, calls>>
             /\ UNCHANGED <<members, checks>>
        ELSE IF pc = "rootReads" /\ r.pkg[0].state = "ok"
        THEN AfterRoot(r)
        ELSE reads' = r /\ UNCHANGED <<pc, outcome, calls, members, checks>>
  /\ UNCHANGED <<options, disk, prev>>

\* lines 77-79: readPackage({ cwd: subpath }) of member i settles
MemberPackageDone(i) ==
  /\ i \in DOMAIN reads.pkg
  /\ i >= 1
  /\ reads.pkg[i].state = "pending"
  /\ LET subpath == Subpath(Opts.path, members[i])
         res == readPackage(subpath)
         r == [reads EXCEPT !.pkg[i] = Settle(res)]
     IN IF ~IsDef(res)
        THEN /\ reads' = r
             /\ IF pc = "memberReads"
                THEN Throw("Failed to read workspace package.json", ReadError("readPackage", subpath))
                ELSE UNCHANGED <<pc, outcome, calls>>
             /\ UNCHANGED checks
        ELSE IF r.inst[i].state = "ok"
        THEN MemberThen(i, r)
        ELSE reads' = r /\ UNCHANGED <<pc, outcome, calls, checks>>
  /\ UNCHANGED <<options, disk, members, prev>>

\* line 80: listInstalled(subpath).catch(...) of member i settles; were it to
\* reject, the Promise.all of line 76 and with it that of line 71 would reject
MemberInstalledDone(i) ==
  /\ i \in DOMAIN reads.inst
  /\ i >= 1
  /\ reads.inst[i].state = "pending"
  /\ LET subpath == Subpath(Opts.path, members[i])
         res == listInstalled(subpath)
         r == [reads EXCEPT !.inst[i] = SettleOrEmpty(res)]
     IN IF r.inst[i].state = "failed"
        THEN /\ reads' = r
             /\ IF pc = "memberReads"
                THEN Throw(ReadError("listInstalled", subpath), "")
                ELSE UNCHANGED <<pc, outcome, calls>>
             /\ UNCHANGED checks
        ELSE IF r.pkg[i].state = "ok"
        THEN MemberThen(i, r)
        ELSE reads' = r /\ UNCHANGED <<pc, outcome, calls, checks>>
  /\ UNCHANGED <<options, disk, members, prev>>

\* every read of the call has settled
Quiet ==
  /\ \A i \in DOMAIN reads.pkg : reads.pkg[i].state # "pending"
  /\ \A i \in DOMAIN reads.inst : reads.inst[i].state # "pending"

\* the caller calls installedCheck again, with the same options on the same disk
CallAgain ==
  /\ pc \in {"returned", "thrown"}
  /\ Quiet
  /\ ~IsDef(prev)
  /\ prev' = Def([pc |-> pc, outcome |-> outcome])
  /\ pc' = "idle"
  /\ reads' = NoReads
  /\ members' = <<>>
  /\ checks' = <<>>
  /\ outcome' = NoOutcome
  /\ calls' = <<>>
  /\ UNCHANGED <<options, disk>>

Next ==
  \/ Call
  \/ RootPackageDone
  \/ RootInstalledDone
  \/ \E i \in 1..Len(members) : MemberPackageDone(i)
  \/ \E i \in 1..Len(members) : MemberInstalledDone(i)
  \/ CallAgain

(***************************************************************************)
(* The inputs: the options of the call and what is on disk.                *)
(***************************************************************************)
Options(engineCheck, versionCheck, engineNoDev, engineIgnores, path, traverseWorkspaces) ==
  Def([engineCheck |-> engineCheck, versionCheck |-> versionCheck,
       engineNoDev |-> engineNoDev, engineIgnores |-> engineIgnores,
       path |-> path, traverseWorkspaces |-> traverseWorkspaces])

Manifest(dependencies, devDependencies, optionalDependencies, engines, workspaces) ==
  [dependencies |-> dependencies, devDependencies |-> devDependencies,
   optionalDependencies |-> optionalDependencies, engines |-> engines,
   workspaces |-> workspaces]

One(n, x) == [k \in {n} |-> x]

Installed(version, engines) == [version |-> version, engines |-> engines]

Unit(manifest, installed) == [manifest |-> manifest, installed |-> installed]

DirName(i) == "p" \o ToString(i)

AscendingDirs == [i \in 1..MaxMembers |-> DirName(i)]

DescendingDirs == [i \in 1..MaxMembers |-> DirName(MaxMembers + 1 - i)]

PathOf(o) == IF IsDef(o) THEN Resolved(Val(o)).path ELSE "."

\* the tree under `path`: the root unit and the member directories p1, p2, ...
Layout(path, root, member) ==
  LET dirOf(p) == CHOOSE i \in 1..MaxMembers : Subpath(path, DirName(i)) = p
      paths == {path} \cup {Subpath(path, DirName(i)) : i \in 1..MaxMembers}
  IN [manifest |-> [p \in paths |-> IF p = path THEN root.manifest
                                    ELSE member[dirOf(p)].manifest],
      installed |-> [p \in paths |-> IF p = path THEN root.installed
                                     ELSE member[dirOf(p)].installed]]

InitWith(optionSet, rootSet, memberSet) ==
  /\ \E o \in optionSet, root \in rootSet, member \in memberSet :
       /\ options = o
       /\ disk = Layout(PathOf(o), root, member)
  /\ pc = "idle"
  /\ reads = NoReads
  /\ members = <<>>
  /\ checks = <<>>
  /\ outcome = NoOutcome
  /\ calls = <<>>
  /\ prev = Undefined

Flag == {Undefined, Def(FALSE), Def(TRUE)}

\* a member that fails both checks on its own: b is required and nowhere
\* installed in range, and the inherited engines reject the platform
PlainMember(i) ==
  Unit(Def(Manifest(Def(One("b", MaxVersion)), Undefined, Undefined, Undefined, Undefined)),
       Def(EmptyMap))

(***************************************************************************)
(* Spec: runs that reach the two passes, over workspaces whose units all   *)
(* produce lines.                                                          *)
(***************************************************************************)
MainOptions ==
  {Options(Def(TRUE), Def(TRUE), Undefined, Undefined, p, Undefined) :
     p \in {Undefined, Def("app")}}
    \cup {Options(Def(TRUE), Undefined, Undefined, Undefined, Undefined, Undefined),
          Options(Undefined, Def(TRUE), Undefined, Undefined, Undefined, Undefined),
          Options(Def(FALSE), Def(TRUE), Undefined, Undefined, Def("app"), Def(TRUE))}

MainWorkspaces ==
  {Undefined, Def(<<>>), Def(<<DirName(1)>>), Def(<<".">> \o DescendingDirs)}

\* a is installed at version 1 and needs a node the platform is not; b is
\* optional and installed out of range
MainRoots ==
  {Unit(Def(Manifest(Def(One("a", r)), Undefined, Def(One("b", MaxVersion)),
                     Def(One("node", MaxVersion)), w)),
        Def(Assign(One("a", Installed(1, One("node", MaxVersion))),
                   One("b", Installed(1, EmptyMap))))) :
     r \in 1..MaxVersion, w \in MainWorkspaces}

FirstMembers ==
  {Unit(Def(Manifest(Def(One("a", MaxVersion)), Def(One("b", 1)), Undefined,
                     Def(One("node", MaxVersion)), Undefined)),
        i) :
     i \in {Undefined, Def(One("a", Installed(MaxVersion, EmptyMap))),
            Def(One("b", Installed(MaxVersion, One("node", MaxVersion))))}}

MainMembers ==
  {[i \in 1..MaxMembers |-> IF i = 1 THEN first ELSE PlainMember(i)] : first \in FirstMembers}

Init == InitWith(MainOptions, MainRoots, MainMembers)

Spec == Init /\ [][Next]_vars

(***************************************************************************)
(* SpecOptions: every way of setting the options, over one tree.           *)
(***************************************************************************)
AllOptions ==
  {Undefined} \cup
  {Options(e, v, n, g, p, t) :
     e \in Flag, v \in Flag, n \in {Undefined, Def(TRUE)},
     g \in {Undefined, Def(<<"a">>)}, p \in {Undefined, Def("app")},
     t \in {Undefined, Def(FALSE)}}

RootSnapshots ==
  {Assign(One("a", Installed(v, One("node", MaxVersion))), One("b", Installed(1, EmptyMap))) :
     v \in 1..MaxVersion}

OptionRoots ==
  {Unit(Def(Manifest(Def(One("a", MaxVersion)), Undefined, Def(One("b", MaxVersion)),
                     Def(One("node", MaxVersion)), Def(<<".">> \o AscendingDirs))),
        Def(i)) :
     i \in RootSnapshots}

PlainMembers == {[i \in 1..MaxMembers |-> PlainMember(i)]}

InitOptions == InitWith(AllOptions, OptionRoots, PlainMembers)

SpecOptions == InitOptions /\ [][Next]_vars

(***************************************************************************)
(* SpecIO: every combination of readable and unreadable manifests and      *)
(* installed trees.                                                        *)
(***************************************************************************)
IOOptions ==
  {Options(Def(TRUE), Def(TRUE), Undefined, Undefined, Undefined, t) :
     t \in {Undefined, Def(FALSE)}}

Readable(u) ==
  {Unit(m, i) : m \in {Undefined, u.manifest}, i \in {Undefined, u.installed}}

IORoots == UNION {Readable(u) : u \in OptionRoots}

IOMembers ==
  {member \in [1..MaxMembers -> UNION {Readable(PlainMember(i)) : i \in 1..MaxMembers}] :
     \A i \in 1..MaxMembers : member[i] \in Readable(PlainMember(i))}

InitIO == InitWith(IOOptions, IORoots, IOMembers)

SpecIO == InitIO /\ [][Next]_vars

(***************************************************************************)
(* SpecFields: manifests whose engines, dependencies and devDependencies   *)
(* are absent, empty or filled, under the engine options; the workspaces   *)
(* are the first and the last member directory.                            *)
(***************************************************************************)
FieldOptions ==
  {Options(Def(TRUE), Def(TRUE), n, g, Undefined, Undefined) :
     n \in {Undefined, Def(TRUE)},
     g \in {Undefined, Def(<<"a">>)}}

FieldRoots ==
  {Unit(Def(Manifest(d, v, Undefined, e, Def(<<DirName(1), DirName(MaxMembers)>>))),
        Def(Assign(One("a", Installed(1, One("node", MaxVersion))),
                   One("b", Installed(1, EmptyMap))))) :
     d \in {Undefined, Def(EmptyMap), Def(One("a", MaxVersion))},
     v \in {Def(One("b", 1))},
     e \in {Undefined, Def(One("node", MaxVersion))}}

FieldFirstMembers ==
  {Unit(Def(Manifest(d, v, Undefined, e, Undefined)), Def(EmptyMap)) :
     d \in {Undefined, Def(EmptyMap), Def(One("b", 1))},
     v \in {Undefined, Def(One("a", 1))},
     e \in {Undefined, Def(EmptyMap), Def(One("node", 1))}}

FieldMembers ==
  {[i \in 1..MaxMembers |-> IF i = 1 THEN first ELSE PlainMember(i)] :
     first \in FieldFirstMembers}

InitFields == InitWith(FieldOptions, FieldRoots, FieldMembers)

SpecFields == InitFields /\ [][Next]_vars

(***************************************************************************)
(* What the properties speak of: the inputs of the run as they are on      *)
(* disk, and the lines the evaluators can produce.                         *)
(***************************************************************************)
RootReadable == IsDef(readPackage(Opts.path)) /\ IsDef(listInstalled(Opts.path))

RootManifest == Val(readPackage(Opts.path))

RootSnapshot == Val(listInstalled(Opts.path))

\* the workspace members of the root manifest, in the order it declares them
Declared ==
  IF Opts.traverseWorkspaces /\ IsDef(RootManifest.workspaces)
  THEN SelectSeq(Val(RootManifest.workspaces), LAMBDA w : w # ".")
  ELSE <<>>

DeclaredSubpath(k) == Opts.path \o "/" \o Declared[k]

MemberManifest(k) == Val(readPackage(DeclaredSubpath(k)))

\* the member's own snapshot; an unreadable one counts as empty
MemberSnapshot(k) ==
  IF IsDef(listInstalled(DeclaredSubpath(k))) THEN Val(listInstalled(DeclaredSubpath(k)))
  ELSE EmptyMap

Ranges == 1..MaxVersion

VersionLines ==
  {NotInstalled(n) : n \in Names}
    \cup {VersionMismatch(n, v, r) : n \in Names, v \in Ranges, r \in Ranges}

EngineLines ==
  {PlatformMismatch("node", r) : r \in Ranges}
    \cup {DependencyEngineMismatch(n, "node", r) : n \in Names, r \in Ranges}

RawLines == VersionLines \cup EngineLines

\* the line carries the label of the member declared k-th
LabelledBy(line, k) == \E m \in RawLines : line = "[" \o DeclaredSubpath(k) \o "] " \o m

\* 0 for a line of the root, k for a line of the member declared k-th
ContextOf(line) ==
  IF line \in RawLines THEN 0
  ELSE CHOOSE k \in 1..Len(Declared) : LabelledBy(line, k)

IsVersionLine(line) ==
  \/ line \in VersionLines
  \/ \E k \in 1..Len(Declared), m \in VersionLines : line = "[" \o DeclaredSubpath(k) \o "] " \o m

RECURSIVE Contexts(_)
Contexts(lines) ==
  IF lines = <<>> THEN <<>> ELSE <<ContextOf(Head(lines))>> \o Contexts(Tail(lines))

RECURSIVE Passes(_)
Passes(lines) ==
  IF lines = <<>> THEN <<>> ELSE <<IsVersionLine(Head(lines))>> \o Passes(Tail(lines))

Returned == pc = "returned"

BothSequences == <<outcome.errors, outcome.warnings>>

(***************************************************************************)
(* C1: with two or more workspace members, the member contexts are         *)
(* evaluated, and their lines appear, in the order the root manifest       *)
(* declares the members, for every completion order of the reads.          *)
(***************************************************************************)
C1_EvaluatedInDeclaredOrder ==
  \A i \in 1..Len(calls), j \in 1..Len(calls) :
    (i < j /\ calls[i].fn = calls[j].fn /\ IsDef(calls[i].subpath) /\ IsDef(calls[j].subpath))
      => \E k \in 1..Len(Declared), l \in 1..Len(Declared) :
           /\ k <= l
           /\ Val(calls[i].subpath) = DeclaredSubpath(k)
           /\ Val(calls[j].subpath) = DeclaredSubpath(l)

C1_LinesInDeclaredOrder(lines) ==
  LET ctx == Contexts(lines)
      version == Passes(lines)
  IN \A i \in 1..Len(lines), j \in 1..Len(lines) :
       (i < j /\ version[i] = version[j] /\ ctx[i] > 0 /\ ctx[j] > 0) => ctx[i] <= ctx[j]

C1_MembersInDeclaredOrder ==
  (Returned /\ Len(Declared) >= 2)
    => /\ C1_EvaluatedInDeclaredOrder
       /\ C1_LinesInDeclaredOrder(outcome.errors)
       /\ C1_LinesInDeclaredOrder(outcome.warnings)

(***************************************************************************)
(* C7: two runs with the same options over the same disk return the same   *)
(* errors, warnings and notices, whatever the scheduling of the reads.     *)
(***************************************************************************)
C7_SameResultTwice ==
  (Returned /\ IsDef(prev) /\ Val(prev).pc = "returned")
    => /\ outcome.errors = Val(prev).outcome.errors
       /\ outcome.warnings = Val(prev).outcome.warnings
       /\ outcome.notices = Val(prev).outcome.notices

(***************************************************************************)
(* C2: in errors and in warnings, every line of the root context precedes  *)
(* every line of a member context, and the lines of one context are        *)
(* contiguous, also when both checks are enabled.                          *)
(***************************************************************************)
RootFirst(ctx) ==
  \A i \in 1..Len(ctx), j \in 1..Len(ctx) :
    i < j => ~(ctx[i] > 0 /\ ctx[j] = 0)

Contiguous(ctx) ==
  \A i \in 1..Len(ctx), j \in 1..Len(ctx), k \in 1..Len(ctx) :
    (i < j /\ j < k /\ ctx[i] = ctx[k]) => ctx[j] = ctx[i]

VersionLinesFirst(version) ==
  \A i \in 1..Len(version), j \in 1..Len(version) :
    i < j => ~(~version[i] /\ version[j])

RootFirstInPass(ctx, version) ==
  \A i \in 1..Len(ctx), j \in 1..Len(ctx) :
    (i < j /\ version[i] = version[j]) => ~(ctx[i] > 0 /\ ctx[j] = 0)

ContiguousInPass(ctx, version) ==
  \A i \in 1..Len(ctx), j \in 1..Len(ctx), k \in 1..Len(ctx) :
    (i < j /\ j < k /\ version[i] = version[k] /\ ctx[i] = ctx[k])
      => ctx[j] = ctx[i] /\ version[j] = version[i]

Prefixed(c, lines) ==
  [k \in 1..Len(lines) |->
     IF IsDef(c.subpath) THEN "[" \o Val(c.subpath) \o "] " \o lines[k] ELSE lines[k]]

RECURSIVE ProducedErrors(_)
ProducedErrors(cs) ==
  IF cs = <<>> THEN <<>>
  ELSE Prefixed(Head(cs), CallResult(Head(cs)).errors) \o ProducedErrors(Tail(cs))

RECURSIVE ProducedWarnings(_)
ProducedWarnings(cs) ==
  IF cs = <<>> THEN <<>>
  ELSE Prefixed(Head(cs), CallResult(Head(cs)).warnings) \o ProducedWarnings(Tail(cs))

C9_MemberLinesPrefixed ==
  Returned =>
    /\ outcome.errors = ProducedErrors(calls)
    /\ outcome.warnings = ProducedWarnings(calls)
    /\ \A i \in 1..Len(calls) :
         IsDef(calls[i].subpath) =>
           \E k \in 1..Len(Declared) : Val(calls[i].subpath) = DeclaredSubpath(k)

\* both checks ran; a root line and a member line of each check are returned
C9_Witness ==
  /\ Returned
  /\ Opts.versionCheck /\ Opts.engineCheck
  /\ \E i \in 1..Len(calls) :
       /\ calls[i].fn = "checkPackageVersions" /\ IsDef(calls[i].subpath)
       /\ CallResult(calls[i]).errors # <<>>
  /\ \E i \in 1..Len(calls) :
       /\ calls[i].fn = "checkEngineVersions" /\ IsDef(calls[i].subpath)
       /\ CallResult(calls[i]).errors # <<>>
  /\ \E i \in 1..Len(calls) : ~IsDef(calls[i].subpath) /\ CallResult(calls[i]).errors # <<>>
  /\ \E i \in 1..Len(calls) : ~IsDef(calls[i].subpath) /\ CallResult(calls[i]).warnings # <<>>

(***************************************************************************)
(* C10: a member context's installed snapshot is the root snapshot         *)
(* overlaid with the member's own (the member's entry wins, a name only in *)
(* the root stays), and building the members' snapshots, in any            *)
(* interleaving, changes neither the root context's snapshot nor another   *)
(* member's.                                                               *)
(***************************************************************************)
IsOverlay(map, root, own) ==
  /\ DOMAIN map = (DOMAIN root) \cup (DOMAIN own)
  /\ \A n \in DOMAIN own : map[n] = own[n]
  /\ \A n \in (DOMAIN root) \ (DOMAIN own) : map[n] = root[n]

DeclaredIndex(subpath) == CHOOSE k \in 1..Len(Declared) : DeclaredSubpath(k) = subpath

C10_SnapshotsOverlaidNotShared ==
  \A c \in 1..Len(checks) :
    IF IsDef(checks[c].subpath)
    THEN IsOverlay(checks[c].installedDependencies.map, RootSnapshot,
                   MemberSnapshot(DeclaredIndex(Val(checks[c].subpath))))
    ELSE checks[c].installedDependencies.map = RootSnapshot

\* two member contexts are built; in one the member's entry replaced the root's
\* entry of the same name while a name only in the root is still there
C10_Witness ==
  /\ Len(checks) >= 3
  /\ \E c \in 2..Len(checks) :
       LET own == MemberSnapshot(DeclaredIndex(Val(checks[c].subpath)))
       IN /\ \E n \in (DOMAIN own) \cap (DOMAIN RootSnapshot) : own[n] # RootSnapshot[n]
          /\ (DOMAIN RootSnapshot) \ (DOMAIN own) # {}

(***************************************************************************)
(* C3: with engineCheck false or unset and versionCheck false or unset,    *)
(* the call fails with the configuration error, and no manifest read and   *)
(* no installed-snapshot read is started, whatever the other options are.  *)
(***************************************************************************)
FalseOrUnset(flag) == flag = Undefined \/ flag = Def(FALSE)

NoCheckRequested ==
  /\ IsDef(options)
  /\ FalseOrUnset(Val(options).engineCheck)
  /\ FalseOrUnset(Val(options).versionCheck)

ConfigurationError ==
  /\ pc = "thrown"
  /\ outcome.message = "Expected to run at least one check. Add engineCheck and/or versionCheck"

C3_ConfigurationErrorBeforeIO ==
  NoCheckRequested => /\ pc = "idle" \/ ConfigurationError
                      /\ reads = NoReads

\* the call has failed, with the other options set
C3_Witness ==
  /\ NoCheckRequested
  /\ ConfigurationError
  /\ IsDef(Val(options).traverseWorkspaces)
  /\ IsDef(Val(options).engineIgnores)
  /\ IsDef(Val(options).engineNoDev)
  /\ IsDef(Val(options).path)

(***************************************************************************)
(* C4: a failed read of the root manifest, of the root installed snapshot  *)
(* or of a workspace member's manifest aborts the run with a wrapped error *)
(* and no result; a failed read of a member's installed snapshot alone     *)
(* counts as an empty snapshot for that member and the run returns.        *)
(***************************************************************************)
MemberManifestUnreadable ==
  \E k \in 1..Len(Declared) : ~IsDef(readPackage(DeclaredSubpath(k)))

FatalRead == ~RootReadable \/ MemberManifestUnreadable

Called == pc # "idle"

\* the wrapped error names a read that did fail, and carries its error as the cause
WrappedError ==
  /\ outcome.errors = <<>> /\ outcome.warnings = <<>>
  /\ \/ /\ outcome.message = "Failed to read package.json"
        /\ ~IsDef(readPackage(Opts.path))
        /\ outcome.cause = ReadError("readPackage", Opts.path)
     \/ /\ outcome.message = "Failed to list installed modules"
        /\ ~IsDef(listInstalled(Opts.path))
        /\ outcome.cause = ReadError("listInstalled", Opts.path)
     \/ /\ outcome.message = "Failed to read workspace package.json"
        /\ RootReadable
        /\ \E k \in 1..Len(Declared) :
             /\ ~IsDef(readPackage(DeclaredSubpath(k)))
             /\ outcome.cause = ReadError("readPackage", DeclaredSubpath(k))

\* the context of every member whose tree is unreadable sees the root snapshot alone
DegradedToEmpty ==
  \A k \in 1..Len(Declared) :
    ~IsDef(listInstalled(DeclaredSubpath(k)))
      => \E c \in 1..Len(checks) :
           /\ checks[c].subpath = Def(DeclaredSubpath(k))
           /\ checks[c].installedDependencies.map = RootSnapshot

C4_ReadFailures ==
  /\ pc = "returned" => ~FatalRead
  /\ (pc = "thrown" /\ IsDef(options) /\ ~NoCheckRequested) => FatalRead /\ WrappedError
  /\ (Called /\ Quiet /\ IsDef(options) /\ ~NoCheckRequested)
       => IF FatalRead THEN pc = "thrown"
          ELSE pc = "returned" /\ Len(checks) = 1 + Len(Declared) /\ DegradedToEmpty

\* the run returned although the installed tree of a member was unreadable
C4_Witness ==
  /\ pc = "returned"
  /\ Len(Declared) >= 2
  /\ \E k \in 1..Len(Declared) : ~IsDef(listInstalled(DeclaredSubpath(k)))
  /\ \E k \in 1..Len(Declared) : IsDef(listInstalled(DeclaredSubpath(k)))

(***************************************************************************)
(* C5: with versionCheck enabled, for a workspace member whose manifest    *)
(* has no `dependencies`, the required set handed to the dependency        *)
(* version evaluator is the root manifest's `dependencies`.                *)
(***************************************************************************)
C5_RootDependenciesHanded ==
  (Returned /\ Opts.versionCheck) =>
    \A i \in 1..Len(calls) :
      (/\ calls[i].fn = "checkPackageVersions"
       /\ IsDef(calls[i].subpath)
       /\ ~IsDef(MemberManifest(DeclaredIndex(Val(calls[i].subpath))).dependencies))
        => calls[i].dependencies = OrEmpty(RootManifest.dependencies)

(***************************************************************************)
(* C6: a member context's `engines` (and `dependencies`) is the root       *)
(* manifest's field in full when the member's own field is absent or an    *)
(* empty mapping, and the member's own field, with nothing of the root     *)
(* merged in, when it is non-empty.                                        *)
(***************************************************************************)
InheritFields == {"engines", "dependencies"}

MemberContexts == {c \in 1..Len(checks) : IsDef(checks[c].subpath)}

OwnField(c, f) == MemberManifest(DeclaredIndex(Val(checks[c].subpath)))[f]

RootField(f) == IF IsDef(RootManifest[f]) THEN Val(RootManifest[f]) ELSE EmptyMap

C6_FallbackWhenAbsentOrEmpty ==
  \A c \in MemberContexts, f \in InheritFields :
    IF ~IsDef(OwnField(c, f)) \/ OwnField(c, f) = Def(EmptyMap)
    THEN checks[c][f].map = RootField(f)
    ELSE checks[c][f].map = Val(OwnField(c, f))

(***************************************************************************)
(* C6 as amended: a member context's `engines` (and `dependencies`) is the *)
(* root manifest's field in full when the member's manifest has no such    *)
(* field, and the member's own field, with nothing of the root merged in,  *)
(* when the manifest has the field, an empty mapping included.             *)
(***************************************************************************)
C6_FallbackWhenAbsent ==
  \A c \in MemberContexts, f \in InheritFields :
    IF ~IsDef(OwnField(c, f))
    THEN checks[c][f].map = RootField(f)
    ELSE checks[c][f].map = Val(OwnField(c, f))

\* one member context inherits the root's engines and keeps its own empty
\* dependencies, another keeps its own dependencies, all against a filled root
C6_Witness ==
  /\ RootField("engines") # EmptyMap /\ RootField("dependencies") # EmptyMap
  /\ \E c \in MemberContexts :
       ~IsDef(OwnField(c, "engines")) /\ OwnField(c, "dependencies") = Def(EmptyMap)
  /\ \E c \in MemberContexts :
       /\ IsDef(OwnField(c, "dependencies"))
       /\ Val(OwnField(c, "dependencies")) \notin {EmptyMap, RootField("dependencies")}

(***************************************************************************)
(* C8: the dependency set handed to the engine evaluator for a context is  *)
(* a fresh copy of the context's `dependencies` when engineNoDev is true   *)
(* and of its required set when it is false, without the names in          *)
(* engineIgnores; building it changes no dependency set of any context.    *)
(***************************************************************************)
Ignored == {Opts.engineIgnores[k] : k \in 1..Len(Opts.engineIgnores)}

Without(map, names) == [n \in (DOMAIN map) \ names |-> map[n]]

EngineBase(check) ==
  IF Opts.engineNoDev THEN check.dependencies.map ELSE check.requiredDependencies.map

\* the engine calls are the last Len(checks) calls, one per context, in order
EngineCallOf(c) == calls[Len(calls) - Len(checks) + c]

HandedFilteredCopy ==
  (Returned /\ Opts.engineCheck) =>
    \A c \in 1..Len(checks) :
      /\ EngineCallOf(c).fn = "checkEngineVersions"
      /\ EngineCallOf(c).subpath = checks[c].subpath
      /\ EngineCallOf(c).dependencies = Without(EngineBase(checks[c]), Ignored)

DependencySetsKept ==
  \A c \in 1..Len(checks) :
    c <= Len(checks') =>
      /\ checks'[c].dependencies = checks[c].dependencies
      /\ checks'[c].requiredDependencies = checks[c].requiredDependencies
      /\ checks'[c].optionalDependencies = checks[c].optionalDependencies

C8_EngineDependenciesCopied == []HandedFilteredCopy /\ [][DependencySetsKept]_vars

\* production dependencies only, an ignored name among those of the root, which a
\* member context inherits
C8_Witness ==
  /\ Returned /\ Opts.engineCheck /\ Opts.engineNoDev
  /\ Ignored \cap DOMAIN checks[1].dependencies.map # {}
  /\ \E c \in MemberContexts : checks[c].dependencies.id = checks[1].dependencies.id
  /\ \E c \in MemberContexts :
       Ignored \cap DOMAIN checks[c].requiredDependencies.map # {}
====
